---- MODULE Spec2Model ----
(***************************************************************************)
(* A model of the Regsafe regular-expression tokenizer (src/src/index.ts). *)
(*                                                                         *)
(* The tokenizer owns an immutable input string `regex` and a cursor       *)
(* `position`.  tokenize() and the private scan routines it calls are      *)
(* modelled as a call stack of frames; one action is one iteration of one  *)
(* loop of the source (with the straight-line code around it), or the      *)
(* return of one routine.  A character is a one-character string, a string *)
(* is a sequence of characters, offsets are zero-based as in the source.   *)
(***************************************************************************)
EXTENDS Integers, Sequences, FiniteSets, TLC

VARIABLES regex, position, stack, result, calls

vars == <<regex, position, stack, result, calls>>

----------------------------------------------------------------------------
(* Bounds of the model *)

MaxLen == 3
MaxGroupLen == 4
MaxEscLen == 6
MaxCalls == 2

(* Input alphabets *)
Alphabet == {"a", "1", "(", ")", "[", "]", "{", "}", "\\", "?", "|", "^", "-", "*"}
GroupAlphabet == {"(", ")", "a", "|", "?", "=", "!"}
EscAlphabet == {"\\", "u", "x", "1"}

Strs(A, n) == UNION {[1..k -> A] : k \in 0..n}

(* The inputs of the playground, the README and the documented examples *)
Playground ==
  <<"(", "a", "|", "b", ")", "*", "[", "a", "-", "z", "]", "{", "1", ",", "3", "}",
    "\\", "d", "+", "\\", "u", "0", "0", "4", "1">>

ReadmePrefix == <<"(", "a", "|", "b", ")", "*">>

Examples ==
  { Playground, ReadmePrefix,
    <<"[", "a", "-", "z", "]">>,
    <<"\\", "d", "+">>,
    <<"\\", "u", "0", "0", "4", "1">>,
    <<"(", "?", "=", "a", ")">>,
    <<"(", "?", "!", "a", ")", "b">>,
    <<"(", "?", ":", "a", ")">>,
    <<"a", "{", "1", ",", "3", "}">>,
    <<"(", "a", "{", "1", "}", ")">>,
    <<"(", "[", ")", "]", ")">>,
    <<"\\", "1", "2", "\\", "u", "0", "0", "4", "1", "\\", "x", "4", "1", "\\", "d">>,
    <<"^", "a", "$">>,
    <<"a", ".", "+">> }

Inputs ==
  Strs(Alphabet, MaxLen) \cup Strs(GroupAlphabet, MaxGroupLen)
    \cup Strs(EscAlphabet, MaxEscLen) \cup Examples

----------------------------------------------------------------------------
(* JavaScript values *)

(* The value of an out-of-range string index *)
UNDEF == "undefined"

(* this.regex[p] *)
CharAt(p) == IF p >= 0 /\ p < Len(regex) THEN regex[p + 1] ELSE UNDEF

(* A variant that appends the value read as it is, without coercion *)
Str_Uncoerced(c) == <<c>>

(* String coercion of a character read: `s += c` and `${c}` *)
Str(c) == IF c = UNDEF THEN <<"u", "n", "d", "e", "f", "i", "n", "e", "d">> ELSE <<c>>

Digits == {"0", "1", "2", "3", "4", "5", "6", "7", "8", "9"}

(* /[0-9]/.test(c): an unanchored search in the coerced string *)
TestDigit(c) == \E k \in DOMAIN Str(c) : Str(c)[k] \in Digits

TokenType ==
  {"CHAR", "META_CHAR", "GROUP_OPEN", "GROUP_CLOSE", "RANGE_OPEN", "RANGE_CLOSE",
   "PIPE", "QUANTIFIER", "ESCAPE", "ANCHOR", "LOOKAHEAD", "NEG_LOOKAHEAD",
   "UNICODE_ESCAPE", "HEX_ESCAPE", "BACKREFERENCE"}

(* createToken, with the cursor value it captures made explicit *)
createToken(type, value, pos) == [type |-> type, value |-> value, position |-> pos]

isMetaChar(char) == char \in {"*", "+", "?", "."}

isAnchor(char) == char = "^" \/ char = "$"

isQuantifierStart(char) == char = "{"

----------------------------------------------------------------------------
(* The call stack *)

Frame(fn, tokens, str, i) == [fn |-> fn, tokens |-> tokens, str |-> str, i |-> i]

top == stack[Len(stack)]

In(fn) == stack # <<>> /\ top.fn = fn

(* tokens.push(tok) in the running routine *)
Emit(tok) == stack' = [stack EXCEPT ![Len(stack)].tokens = Append(@, tok)]

(* the running routine calls fn *)
Enter(f) == stack' = Append(stack, f)

(* the running routine returns toks; its caller pushes them (spread) *)
Return(toks) ==
  LET n == Len(stack) IN
    stack' = [SubSeq(stack, 1, n - 1) EXCEPT ![n - 1].tokens = @ \o toks]

Init ==
  /\ regex \in Inputs
  /\ position = 0
  /\ stack = <<>>
  /\ result = <<>>
  /\ calls = 0

----------------------------------------------------------------------------
(* Entry of the scan routines: the straight-line code before their loop *)

(* A variant whose NEG_LOOKAHEAD text is the three characters consumed *)
ParseGroupPrologue_NegText(p) ==
  LET open == <<createToken("GROUP_OPEN", <<"(">>, p)>>
      p1 == p + 1
      p2 == p + 2
  IN IF CharAt(p1) = "?"
     THEN IF CharAt(p2) = "="
          THEN [tokens |-> Append(open, createToken("LOOKAHEAD", <<"(", "?", "=">>, p2)),
                position |-> p2 + 1]
          ELSE IF CharAt(p2) = "!"
          THEN [tokens |-> Append(open, createToken("NEG_LOOKAHEAD", <<"(", "?", "!">>, p2)),
                position |-> p2 + 1]
          ELSE [tokens |-> open, position |-> p2]
     ELSE [tokens |-> open, position |-> p1]

(* parseGroup, up to the content loop *)
ParseGroupPrologue(p) ==
  LET open == <<createToken("GROUP_OPEN", <<"(">>, p)>>
      p1 == p + 1
      p2 == p + 2
  IN IF CharAt(p1) = "?"
     THEN IF CharAt(p2) = "="
          THEN [tokens |-> Append(open, createToken("LOOKAHEAD", <<"(", "?", "=">>, p2)),
                position |-> p2 + 1]
          ELSE IF CharAt(p2) = "!"
          THEN [tokens |-> Append(open, createToken("NEG_LOOKAHEAD", <<"(", "?", "!", ")">>, p2)),
                position |-> p2 + 1]
          ELSE [tokens |-> open, position |-> p2]
     ELSE [tokens |-> open, position |-> p1]

CallParseGroup ==
  LET g == ParseGroupPrologue(position) IN
    /\ Enter(Frame("parseGroup", g.tokens, <<>>, 0))
    /\ position' = g.position

CallParseRange ==
  /\ Enter(Frame("parseRange", <<createToken("RANGE_OPEN", <<"[">>, position)>>, <<>>, 0))
  /\ position' = position + 1

(* A variant that does not skip the '{' *)
CallParseQuantifier_NoSkip ==
  /\ Enter(Frame("parseQuantifier", <<>>, <<>>, 0))
  /\ position' = position

CallParseQuantifier ==
  /\ Enter(Frame("parseQuantifier", <<>>, <<>>, 0))
  /\ position' = position + 1

(* A variant that builds the generic ESCAPE token after the cursor moved *)
CallParseEscape_LateToken ==
  LET p1 == position + 1
      escapeChar == CharAt(p1)
  IN IF escapeChar = "u"
     THEN /\ Enter(Frame("parseUnicodeEscape", <<>>, <<"\\", "u">>, 0))
          /\ position' = p1 + 1
     ELSE IF escapeChar = "x"
     THEN /\ Enter(Frame("parseHexEscape", <<>>, <<"\\", "x">>, 0))
          /\ position' = p1 + 1
     ELSE IF TestDigit(escapeChar)
     THEN /\ Emit(createToken("BACKREFERENCE", <<"\\">> \o Str(CharAt(p1)), p1 + 1))
          /\ position' = p1 + 1
     ELSE /\ Emit(createToken("ESCAPE", <<"\\">> \o Str(escapeChar), p1 + 1))
          /\ position' = p1 + 1

(* parseEscape, with parseBackreference; the two counted scans get a frame *)
CallParseEscape ==
  LET p1 == position + 1
      escapeChar == CharAt(p1)
  IN IF escapeChar = "u"
     THEN /\ Enter(Frame("parseUnicodeEscape", <<>>, <<"\\", "u">>, 0))
          /\ position' = p1 + 1
     ELSE IF escapeChar = "x"
     THEN /\ Enter(Frame("parseHexEscape", <<>>, <<"\\", "x">>, 0))
          /\ position' = p1 + 1
     ELSE IF TestDigit(escapeChar)
     THEN /\ Emit(createToken("BACKREFERENCE", <<"\\">> \o Str(CharAt(p1)), p1 + 1))
          /\ position' = p1 + 1
     ELSE /\ Emit(createToken("ESCAPE", <<"\\">> \o Str(escapeChar), p1))
          /\ position' = p1 + 1

----------------------------------------------------------------------------
(* tokenize *)

(* A variant that rewinds the cursor at the start of each call *)
Call_ResetsCursor ==
  /\ stack = <<>>
  /\ calls < MaxCalls
  /\ stack' = <<Frame("tokenize", <<>>, <<>>, 0)>>
  /\ calls' = calls + 1
  /\ position' = 0
  /\ UNCHANGED <<regex, result>>

Call ==
  /\ stack = <<>>
  /\ calls < MaxCalls
  /\ stack' = <<Frame("tokenize", <<>>, <<>>, 0)>>
  /\ calls' = calls + 1
  /\ UNCHANGED <<regex, position, result>>

TokenizeLoop ==
  /\ In("tokenize")
  /\ position < Len(regex)
  /\ LET char == CharAt(position) IN
       IF isAnchor(char)
       THEN Emit(createToken("ANCHOR", <<char>>, position)) /\ position' = position + 1
       ELSE IF isMetaChar(char)
       THEN Emit(createToken("META_CHAR", <<char>>, position)) /\ position' = position + 1
       ELSE IF char = "(" THEN CallParseGroup
       ELSE IF char = "[" THEN CallParseRange
       ELSE IF isQuantifierStart(char) THEN CallParseQuantifier
       ELSE IF char = "\\" THEN CallParseEscape
       ELSE IF char = "|"
       THEN Emit(createToken("PIPE", <<char>>, position)) /\ position' = position + 1
       ELSE Emit(createToken("CHAR", <<char>>, position)) /\ position' = position + 1
  /\ UNCHANGED <<regex, result, calls>>

TokenizeReturn ==
  /\ In("tokenize")
  /\ ~(position < Len(regex))
  /\ result' = top.tokens
  /\ stack' = <<>>
  /\ UNCHANGED <<regex, position, calls>>

----------------------------------------------------------------------------
(* parseGroup *)

ParseGroupLoop ==
  /\ In("parseGroup")
  /\ CharAt(position) # ")" /\ position < Len(regex)
  /\ Enter(Frame("tokenizeGroupContent", <<>>, <<>>, 0))
  /\ UNCHANGED <<regex, position, result, calls>>

(* A variant that builds GROUP_CLOSE after skipping the ')' *)
ParseGroupReturn_CloseAfterSkip ==
  /\ In("parseGroup")
  /\ ~(CharAt(position) # ")" /\ position < Len(regex))
  /\ Return(Append(top.tokens, createToken("GROUP_CLOSE", <<")">>, position + 1)))
  /\ position' = position + 1
  /\ UNCHANGED <<regex, result, calls>>

ParseGroupReturn ==
  /\ In("parseGroup")
  /\ ~(CharAt(position) # ")" /\ position < Len(regex))
  /\ Return(Append(top.tokens, createToken("GROUP_CLOSE", <<")">>, position)))
  /\ position' = position + 1
  /\ UNCHANGED <<regex, result, calls>>

----------------------------------------------------------------------------
(* tokenizeGroupContent *)

(* A variant that scans a '(' inside a group as a nested group *)
GroupContentLoop_Nested ==
  /\ In("tokenizeGroupContent")
  /\ position < Len(regex) /\ CharAt(position) # ")"
  /\ LET char == CharAt(position) IN
       IF isAnchor(char)
       THEN Emit(createToken("ANCHOR", <<char>>, position)) /\ position' = position + 1
       ELSE IF isMetaChar(char)
       THEN Emit(createToken("META_CHAR", <<char>>, position)) /\ position' = position + 1
       ELSE IF char = "(" THEN CallParseGroup
       ELSE IF char = "[" THEN CallParseRange
       ELSE IF isQuantifierStart(char) THEN CallParseQuantifier
       ELSE IF char = "\\" THEN CallParseEscape
       ELSE IF char = "|"
       THEN Emit(createToken("PIPE", <<char>>, position)) /\ position' = position + 1
       ELSE Emit(createToken("CHAR", <<char>>, position)) /\ position' = position + 1
  /\ UNCHANGED <<regex, result, calls>>

GroupContentLoop ==
  /\ In("tokenizeGroupContent")
  /\ position < Len(regex) /\ CharAt(position) # ")"
  /\ LET char == CharAt(position) IN
       IF isAnchor(char)
       THEN Emit(createToken("ANCHOR", <<char>>, position)) /\ position' = position + 1
       ELSE IF isMetaChar(char)
       THEN Emit(createToken("META_CHAR", <<char>>, position)) /\ position' = position + 1
       ELSE IF char = "[" THEN CallParseRange
       ELSE IF isQuantifierStart(char) THEN CallParseQuantifier
       ELSE IF char = "\\" THEN CallParseEscape
       ELSE IF char = "|"
       THEN Emit(createToken("PIPE", <<char>>, position)) /\ position' = position + 1
       ELSE Emit(createToken("CHAR", <<char>>, position)) /\ position' = position + 1
  /\ UNCHANGED <<regex, result, calls>>

GroupContentReturn ==
  /\ In("tokenizeGroupContent")
  /\ ~(position < Len(regex) /\ CharAt(position) # ")")
  /\ Return(top.tokens)
  /\ UNCHANGED <<regex, position, result, calls>>

----------------------------------------------------------------------------
(* parseRange *)

(* A variant that hands a backslash in a class to the escape kinds *)
RangeToken_Escape(char, pos) ==
  IF char = "-"
  THEN createToken("CHAR", <<"-">>, pos)
  ELSE IF char = "\\"
  THEN createToken("ESCAPE", <<char>>, pos)
  ELSE createToken("CHAR", <<char>>, pos)

RangeToken(char, pos) ==
  IF char = "-"
  THEN createToken("CHAR", <<"-">>, pos)
  ELSE createToken("CHAR", <<char>>, pos)

RangeLoop ==
  /\ In("parseRange")
  /\ CharAt(position) # "]" /\ position < Len(regex)
  /\ Emit(RangeToken(CharAt(position), position))
  /\ position' = position + 1
  /\ UNCHANGED <<regex, result, calls>>

RangeReturn ==
  /\ In("parseRange")
  /\ ~(CharAt(position) # "]" /\ position < Len(regex))
  /\ Return(Append(top.tokens, createToken("RANGE_CLOSE", <<"]">>, position)))
  /\ position' = position + 1
  /\ UNCHANGED <<regex, result, calls>>

----------------------------------------------------------------------------
(* parseQuantifier *)

QuantLoop ==
  /\ In("parseQuantifier")
  /\ CharAt(position) # "}" /\ position < Len(regex)
  /\ stack' = [stack EXCEPT ![Len(stack)].str = @ \o Str(CharAt(position))]
  /\ position' = position + 1
  /\ UNCHANGED <<regex, result, calls>>

QuantReturn ==
  /\ In("parseQuantifier")
  /\ ~(CharAt(position) # "}" /\ position < Len(regex))
  /\ Return(<<createToken("QUANTIFIER", top.str \o <<"}">>, position + 1)>>)
  /\ position' = position + 1
  /\ UNCHANGED <<regex, result, calls>>

----------------------------------------------------------------------------
(* parseUnicodeEscape and parseHexEscape *)

UnicodeLoop ==
  /\ In("parseUnicodeEscape")
  /\ top.i < 4
  /\ stack' = [stack EXCEPT ![Len(stack)].str = @ \o Str(CharAt(position)),
                            ![Len(stack)].i = @ + 1]
  /\ position' = position + 1
  /\ UNCHANGED <<regex, result, calls>>

UnicodeReturn ==
  /\ In("parseUnicodeEscape")
  /\ ~(top.i < 4)
  /\ Return(<<createToken("UNICODE_ESCAPE", top.str, position)>>)
  /\ UNCHANGED <<regex, position, result, calls>>

HexLoop ==
  /\ In("parseHexEscape")
  /\ top.i < 2
  /\ stack' = [stack EXCEPT ![Len(stack)].str = @ \o Str(CharAt(position)),
                            ![Len(stack)].i = @ + 1]
  /\ position' = position + 1
  /\ UNCHANGED <<regex, result, calls>>

HexReturn ==
  /\ In("parseHexEscape")
  /\ ~(top.i < 2)
  /\ Return(<<createToken("HEX_ESCAPE", top.str, position)>>)
  /\ UNCHANGED <<regex, position, result, calls>>

----------------------------------------------------------------------------

Next ==
  \/ Call
  \/ TokenizeLoop
  \/ TokenizeReturn
  \/ ParseGroupLoop
  \/ ParseGroupReturn
  \/ GroupContentLoop
  \/ GroupContentReturn
  \/ RangeLoop
  \/ RangeReturn
  \/ QuantLoop
  \/ QuantReturn
  \/ UnicodeLoop
  \/ UnicodeReturn
  \/ HexLoop
  \/ HexReturn

Spec == Init /\ [][Next]_vars

(* tokenize is synchronous and single-threaded: a started call keeps running *)
FairSpec == Spec /\ WF_vars(Next)

----------------------------------------------------------------------------
(* Vocabulary of the properties *)

RECURSIVE Concat(_)
(* The values of a token sequence, concatenated in output order *)
Concat(toks) == IF toks = <<>> THEN <<>> ELSE Head(toks).value \o Concat(Tail(toks))

RECURSIVE Match(_, _, _, _)
Match(s, t, a, b) ==
  IF a > Len(s) THEN TRUE
  ELSE IF b > Len(t) THEN FALSE
  ELSE IF s[a] = t[b] THEN Match(s, t, a + 1, b + 1)
  ELSE Match(s, t, a, b + 1)

(* s occurs in t as a subsequence: every character of s, in order *)
IsSubseq(s, t) == Match(s, t, 1, 1)

RECURSIVE First(_, _)
(* The offset of the first c at or after offset p, Len(regex) when there is none *)
First(c, p) == IF p >= Len(regex) \/ CharAt(p) = c THEN p ELSE First(c, p + 1)

RECURSIVE StrRange(_, _)
(* The coerced characters read at offsets a..b *)
StrRange(a, b) == IF a > b THEN <<>> ELSE Str(CharAt(a)) \o StrRange(a + 1, b)

(* The first call has returned: result is its token sequence *)
Returned == calls = 1 /\ stack = <<>>

(* No scan read past the end of the input *)
WellFormed == position = Len(regex)

Special == {"^", "$", "*", "+", "?", ".", "(", ")", "[", "]", "{", "}", "\\", "|"}

(* The running routine is tokenize or tokenizeGroupContent, about to dispatch *)
Dispatching ==
  \/ In("tokenize") /\ position < Len(regex)
  \/ In("tokenizeGroupContent") /\ position < Len(regex) /\ CharAt(position) # ")"

IsToken(t) ==
  /\ t.type \in TokenType
  /\ t.position \in 0..(Len(regex) + 6)
  /\ Len(t.value) >= 1
  /\ \A k \in DOMAIN t.value : t.value[k] # UNDEF

----------------------------------------------------------------------------
(* C1: for every input, unmatched '(', '[', '{' and a trailing backslash     *)
(* included, tokenize never fails: every routine that is running can take   *)
(* its next step, and everything built so far and everything returned is a  *)
(* sequence of tokens whose type is one of the fifteen kinds and whose      *)
(* value is a non-empty string (never the undefined value).                 *)
C1_NeverFails ==
  /\ \A k \in DOMAIN result : IsToken(result[k])
  /\ \A f \in DOMAIN stack :
       /\ \A k \in DOMAIN stack[f].tokens : IsToken(stack[f].tokens[k])
       /\ \A k \in DOMAIN stack[f].str : stack[f].str[k] # UNDEF
  /\ stack # <<>> => ENABLED Next

C1_Witness ==
  /\ Returned
  /\ position > Len(regex)
  /\ \E k \in DOMAIN result :
       /\ result[k].type = "ESCAPE"
       /\ result[k].value = <<"\\">> \o Str(UNDEF)
  /\ \E k \in DOMAIN result :
       result[k].type = "GROUP_CLOSE" /\ result[k].position >= Len(regex)

----------------------------------------------------------------------------
(* C2: tokenize terminates on every input: the cursor never decreases,      *)
(* every iteration of the top-level, group-content, character-class,        *)
(* quantifier and escape loops strictly advances it, every iteration of the *)
(* group loop starts a group-content scan that iterates at least once, and  *)
(* every started call returns.                                              *)
LoopIteration ==
  TokenizeLoop \/ GroupContentLoop \/ RangeLoop \/ QuantLoop \/ UnicodeLoop \/ HexLoop

C2_Terminates ==
  /\ [][/\ position' >= position
        /\ LoopIteration => position' > position
        /\ ParseGroupLoop =>
             (In("tokenizeGroupContent") /\ position < Len(regex) /\ CharAt(position) # ")")'
       ]_vars
  /\ (stack # <<>>) ~> (stack = <<>>)

C2_Witness ==
  /\ Returned
  /\ position > Len(regex)
  /\ \E k \in DOMAIN result : result[k].type = "QUANTIFIER"
  /\ \E k \in DOMAIN result : result[k].type = "GROUP_OPEN"

----------------------------------------------------------------------------
(* C3: for every well-formed input, the concatenation of the token values   *)
(* in output order contains every character of the input, in source order.  *)
C3_AllCharsAccounted ==
  (Returned /\ WellFormed) => IsSubseq(regex, Concat(result))

----------------------------------------------------------------------------
(* C4: a QUANTIFIER token's value is the full bracketed text of the input,  *)
(* from the opening '{' to the closing '}' inclusive, and the token is      *)
(* built with the cursor just past the '}'.                                 *)
C4_QuantifierFullText ==
  \A k \in DOMAIN result :
    (result[k].type = "QUANTIFIER" /\ result[k].position <= Len(regex)) =>
      LET v == result[k].value
          e == result[k].position
      IN /\ v[1] = "{"
         /\ v[Len(v)] = "}"
         /\ e >= Len(v)
         /\ v = SubSeq(regex, e - Len(v) + 1, e)

----------------------------------------------------------------------------
(* C5: a group at offset i whose content up to its ')' is only plain        *)
(* characters and '|' is returned flat: GROUP_OPEN at i, one CHAR or PIPE   *)
(* per content character at that character's offset, GROUP_CLOSE at the     *)
(* offset of ')', and the tokens after it follow in the same list; for      *)
(* '(a|b)*' the six tokens have positions 0..5.                             *)
ReadmeTokens ==
  << createToken("GROUP_OPEN", <<"(">>, 0), createToken("CHAR", <<"a">>, 1),
     createToken("PIPE", <<"|">>, 2), createToken("CHAR", <<"b">>, 3),
     createToken("GROUP_CLOSE", <<")">>, 4), createToken("META_CHAR", <<"*">>, 5) >>

C5_FlatGroup ==
  /\ \A k \in DOMAIN result :
       result[k].type = "GROUP_OPEN" =>
         LET i == result[k].position
             j == First(")", i + 1)
             n == j - i - 1
         IN (j < Len(regex) /\ \A m \in (i + 1)..(j - 1) : CharAt(m) \notin Special \ {"|"}) =>
              /\ Len(result) >= k + n + 1
              /\ result[k] = createToken("GROUP_OPEN", <<"(">>, i)
              /\ \A m \in 1..n :
                   result[k + m] =
                     createToken(IF CharAt(i + m) = "|" THEN "PIPE" ELSE "CHAR",
                                 <<CharAt(i + m)>>, i + m)
              /\ result[k + n + 1] = createToken("GROUP_CLOSE", <<")">>, j)
              /\ (k + n + 2 \in DOMAIN result) => result[k + n + 2].position > j
  /\ (Returned /\ regex = ReadmePrefix) => result = ReadmeTokens

C5_Witness ==
  /\ Returned
  /\ \E k \in DOMAIN result :
       /\ k + 5 \in DOMAIN result
       /\ result[k].type = "GROUP_OPEN"
       /\ result[k + 1].type = "CHAR"
       /\ result[k + 2].type = "PIPE"
       /\ result[k + 3].type = "CHAR"
       /\ result[k + 4].type = "GROUP_CLOSE"
       /\ result[k + 4].position < Len(regex)

----------------------------------------------------------------------------
(* C6: a character class '[' c1 .. cn ']' at offset i is returned as        *)
(* RANGE_OPEN at i, exactly one CHAR per content character cj at i+j        *)
(* whatever the character is, and RANGE_CLOSE at i+n+1.                     *)
C6_ClassChars ==
  \A k \in DOMAIN result :
    result[k].type = "RANGE_OPEN" =>
      LET i == result[k].position
          j == First("]", i + 1)
          n == j - i - 1
      IN j < Len(regex) =>
           /\ Len(result) >= k + n + 1
           /\ result[k] = createToken("RANGE_OPEN", <<"[">>, i)
           /\ \A m \in 1..n :
                result[k + m] = createToken("CHAR", <<CharAt(i + m)>>, i + m)
           /\ result[k + n + 1] = createToken("RANGE_CLOSE", <<"]">>, i + n + 1)

C6_Witness ==
  /\ Returned
  /\ \E k \in DOMAIN result :
       /\ k + 2 \in DOMAIN result
       /\ result[k].type = "RANGE_OPEN"
       /\ result[k + 1].value \in {<<"-">>, <<"\\">>, <<"(">>, <<"{">>, <<"^">>}
       /\ result[k + 2].type = "RANGE_CLOSE"
       /\ result[k + 2].position < Len(regex)

----------------------------------------------------------------------------
(* C7: a backslash at offset i followed by a character c, met by the        *)
(* top-level or the group-content scan, gives exactly one token chosen by   *)
(* c: 'u' gives UNICODE_ESCAPE valued '\u' plus the next 4 characters with  *)
(* the cursor at i+6; 'x' gives HEX_ESCAPE valued '\x' plus the next 2      *)
(* characters with the cursor at i+4; a digit gives BACKREFERENCE valued    *)
(* '\' plus that digit with the cursor at i+2, and a digit met by the scan  *)
(* itself is a CHAR; any other c gives ESCAPE valued '\' plus c, at         *)
(* position i+1, with the cursor at i+2.                                    *)
Pushed(tok) ==
  /\ Len(stack') = Len(stack)
  /\ stack' = [stack EXCEPT ![Len(stack)].tokens = Append(@, tok)]

Returns(tok) ==
  LET n == Len(stack) IN
    stack' = [SubSeq(stack, 1, n - 1) EXCEPT ![n - 1].tokens = Append(@, tok)]

(* A counted escape scan of w characters, entered on the letter c at offset i+1 *)
CountedEscape(fn, c, w, type) ==
  /\ (Dispatching /\ CharAt(position) = "\\" /\ CharAt(position + 1) = c) =>
       /\ stack' = Append(stack, Frame(fn, <<>>, <<"\\", c>>, 0))
       /\ position' = position + 2
  /\ In(fn) =>
       LET i == position - top.i - 2 IN
         /\ CharAt(i) = "\\" /\ CharAt(i + 1) = c
         /\ top.i <= w
         /\ top.tokens = <<>>
         /\ top.str = <<"\\", c>> \o StrRange(i + 2, position - 1)
         /\ (position <= Len(regex)) => top.str = SubSeq(regex, i + 1, position)
         /\ IF top.i < w
            THEN /\ position' = position + 1
                 /\ SubSeq(stack', 1, Len(stack) - 1) = SubSeq(stack, 1, Len(stack) - 1)
                 /\ In(fn)' /\ top'.i = top.i + 1
            ELSE /\ position' = position /\ position = i + 2 + w
                 /\ Returns(createToken(type, <<"\\", c>> \o StrRange(i + 2, i + 1 + w), i + 2 + w))

C7_EscapeKinds ==
  [][/\ CountedEscape("parseUnicodeEscape", "u", 4, "UNICODE_ESCAPE")
     /\ CountedEscape("parseHexEscape", "x", 2, "HEX_ESCAPE")
     /\ (Dispatching /\ CharAt(position) = "\\" /\ position + 1 < Len(regex)) =>
          LET i == position
              c == CharAt(i + 1)
          IN /\ position' = i + 2
             /\ c \in Digits =>
                  \E p \in 0..(i + 2) : Pushed(createToken("BACKREFERENCE", <<"\\", c>>, p))
             /\ c \notin Digits \cup {"u", "x"} =>
                  Pushed(createToken("ESCAPE", <<"\\", c>>, i + 1))
     /\ (Dispatching /\ CharAt(position) \in Digits) =>
          /\ Pushed(createToken("CHAR", <<CharAt(position)>>, position))
          /\ position' = position + 1
    ]_vars

C7_Witness ==
  /\ Returned
  /\ WellFormed
  /\ \E k \in DOMAIN result :
       result[k].type = "UNICODE_ESCAPE" /\ Len(result[k].value) = 6
  /\ \E k \in DOMAIN result :
       /\ k + 1 \in DOMAIN result
       /\ result[k].type = "BACKREFERENCE"
       /\ result[k + 1].type = "CHAR" /\ result[k + 1].value[1] \in Digits
  /\ \E k \in DOMAIN result :
       result[k].type = "HEX_ESCAPE" /\ Len(result[k].value) = 4
  /\ \E k \in DOMAIN result :
       result[k].type = "ESCAPE" /\ result[k].position < Len(regex)

----------------------------------------------------------------------------
(* C8: a group that starts with '(?=' at offset i gives GROUP_OPEN '(' at   *)
(* position i immediately followed by a LOOKAHEAD token valued '(?=', and   *)
(* one that starts with '(?!' gives GROUP_OPEN followed by NEG_LOOKAHEAD    *)
(* with the fixed value '(?!)'; in both cases the content scan starts at    *)
(* offset i+3.                                                              *)
LookaheadKind(c) == IF c = "=" THEN "LOOKAHEAD" ELSE "NEG_LOOKAHEAD"

LookaheadText(c) == IF c = "=" THEN <<"(", "?", "=">> ELSE <<"(", "?", "!", ")">>

C8_Lookahead ==
  [][/\ (In("tokenize") /\ position < Len(regex) /\ CharAt(position) = "("
           /\ CharAt(position + 1) = "?" /\ CharAt(position + 2) \in {"=", "!"}) =>
          /\ Len(stack') = Len(stack) + 1
          /\ In("parseGroup")'
          /\ Len(top'.tokens) = 2
          /\ top'.tokens[1] = createToken("GROUP_OPEN", <<"(">>, position)
          /\ top'.tokens[2].type = LookaheadKind(CharAt(position + 2))
          /\ top'.tokens[2].value = LookaheadText(CharAt(position + 2))
          /\ position' = position + 3
     /\ \A k \in DOMAIN result' :
          LET i == result'[k].position IN
            (result'[k].type = "GROUP_OPEN" /\ CharAt(i + 1) = "?"
               /\ CharAt(i + 2) \in {"=", "!"}) =>
              /\ k + 1 \in DOMAIN result'
              /\ result'[k] = createToken("GROUP_OPEN", <<"(">>, i)
              /\ result'[k + 1].type = LookaheadKind(CharAt(i + 2))
              /\ result'[k + 1].value = LookaheadText(CharAt(i + 2))
              /\ (k + 2 \in DOMAIN result') => result'[k + 2].position >= i + 3
    ]_vars

C8_Witness ==
  /\ Returned
  /\ \E k \in DOMAIN result :
       /\ k + 3 \in DOMAIN result
       /\ result[k].type = "GROUP_OPEN"
       /\ result[k + 1].type = "NEG_LOOKAHEAD"
       /\ result[k + 2].type = "CHAR"
       /\ result[k + 3].type = "GROUP_CLOSE"
       /\ result[k + 3].position < Len(regex)

----------------------------------------------------------------------------
(* C9: groups do not nest: inside a group a '(' is emitted as a CHAR, no    *)
(* GROUP_OPEN appears between a GROUP_OPEN and the next GROUP_CLOSE of any  *)
(* output, the first ')' the group scan reaches closes the group, and a     *)
(* ')' met by the top-level loop is emitted as a CHAR.                      *)
NoNestedOpen(toks) ==
  \A k, m \in DOMAIN toks :
    (k < m /\ toks[k].type = "GROUP_OPEN" /\ toks[m].type = "GROUP_OPEN") =>
      \E l \in (k + 1)..(m - 1) : toks[l].type = "GROUP_CLOSE"

C9_NoNesting ==
  [][/\ NoNestedOpen(result')
     /\ (In("tokenizeGroupContent") /\ CharAt(position) = "(") =>
          /\ Pushed(createToken("CHAR", <<"(">>, position))
          /\ position' = position + 1
     /\ (In("tokenizeGroupContent") /\ CharAt(position) = ")") =>
          /\ In("parseGroup")' /\ Len(stack') = Len(stack) - 1
          /\ position' = position
     /\ (In("parseGroup") /\ CharAt(position) = ")") =>
          /\ Len(stack') = Len(stack) - 1
          /\ top'.tokens[Len(top'.tokens)] = createToken("GROUP_CLOSE", <<")">>, position)
          /\ position' = position + 1
     /\ (In("tokenize") /\ CharAt(position) = ")") =>
          /\ Pushed(createToken("CHAR", <<")">>, position))
          /\ position' = position + 1
    ]_vars

C9_Witness ==
  /\ Returned
  /\ \E k \in DOMAIN result :
       /\ k + 3 \in DOMAIN result
       /\ result[k].type = "GROUP_OPEN"
       /\ result[k + 1] = createToken("CHAR", <<"(">>, result[k].position + 1)
       /\ result[k + 2].type = "GROUP_CLOSE"
       /\ result[k + 3] = createToken("CHAR", <<")">>, result[k + 2].position + 1)

----------------------------------------------------------------------------
(* C10: an instance is single-use: once a first tokenize call has returned, *)
(* no later step changes the cursor and every later call returns the empty  *)
(* token sequence.                                                          *)
C10_SingleUse ==
  [][/\ (calls >= 2 \/ (calls = 1 /\ stack = <<>>)) => position' = position
     /\ (calls' >= 2 /\ stack' = <<>>) => result' = <<>>
    ]_vars

C10_Witness ==
  /\ calls = 2
  /\ stack = <<>>
  /\ result = <<>>
  /\ Len(regex) > 0

====
